---- MODULE Spec2Model ----
(***************************************************************************)
(* The syncWithPlausible Cloud Function (src/index.js): one HTTP handler   *)
(* that Fivetran invokes with {state, secrets, setup_test}.  The handler   *)
(* validates the secrets, sends one query to the Plausible v2 API, awaits  *)
(* the response, and replies with rows, a new state and hasMore.           *)
(*                                                                         *)
(* Encodings.  JSON objects are functions from field names to values; an   *)
(* absent field is a name outside the DOMAIN.  JSON null is NULL.          *)
(* A "YYYY-MM-DD HH:mm" string is the number DDHH built from its day and   *)
(* hour digits, an ISO-8601 UTC string likewise, so that the order of the  *)
(* numbers is the order of the fixed-width digit strings.                  *)
(***************************************************************************)
EXTENDS Integers, Sequences, FiniteSets, TLC

\* ---------------------------------------------------------------- bounds
\* Upstream reports at most (MaxPages + 1) * PAGE_SIZE - 1 rows.
MaxPages == 2
\* Longest page the free-form upstream of Spec returns.
MaxRows == 2
\* Number of ticks the wall clock makes.
MaxTicks == 1

\* ------------------------------------------------------------- constants
PAGE_SIZE == 1000
PROBE_LIMIT == 1
NULL == -1
\* Europe/Berlin: CET is UTC+1, CEST is UTC+2.
CET == 1
CEST == 2
\* Calendar of the model: local time jumps 02:00 -> 03:00 on SpringDay and
\* 03:00 -> 02:00 on FallDay.
SpringDay == 2
FallDay == 4
\* Wall clock (UTC hour index) at the first invocation.
StartClock == 24 * (FallDay + 1)

\* ----------------------------------------------------------- JSON objects
EmptyObject == [f \in {} |-> 0]

Has(obj, k) == k \in DOMAIN obj

\* obj.k == null  (undefined or null)
IsNullish(obj, k) == ~Has(obj, k) \/ obj[k] = NULL

\* obj.k = v
Put(obj, k, v) == [f \in (DOMAIN obj) \cup {k} |-> IF f = k THEN v ELSE obj[f]]

\* delete obj.k
Delete(obj, k) == [f \in (DOMAIN obj) \ {k} |-> obj[f]]

\* ------------------------------------------------------------ timestamps
\* "YYYY-MM-DD HH:mm" (digits DDHH) -> hour index on the local time line.
ParseLocal(dimDateTime) == 24 * (dimDateTime \div 100) + (dimDateTime % 100)

\* UTC offset moment-timezone applies to a local hour index in Europe/Berlin:
\* the skipped hour 02:00 of SpringDay is read with the offset before the
\* jump, the repeated hour 02:00 of FallDay with the offset before the jump.
UtcOffset(local) ==
    IF local >= 24 * SpringDay + 3 /\ local < 24 * FallDay + 3 THEN CEST ELSE CET

\* Date.prototype.toISOString / moment#toISOString: hour index -> digits DDHH.
toISOString(utc) == (utc \div 24) * 100 + (utc % 24)

\* moment.tz(dimDateTime, "YYYY-MM-DD HH:mm", REPORTING_TIMEZONE).toISOString()
MomentTzToISOString(dimDateTime) ==
    LET local == ParseLocal(dimDateTime)
    IN  toISOString(local - UtcOffset(local))

\* String.prototype.localeCompare on two ISO strings.
localeCompare(a, b) == IF a < b THEN -1 ELSE IF a > b THEN 1 ELSE 0

\* ---------------------------------------------------------------- planning
\* const lastDateTime = state?.lastDateTime;  `lastDateTime ? ... : "all"`
lastDateTimeTruthy(state) == ~IsNullish(state, "lastDateTime")

ALL == <<"all">>
DAY == <<"day">>

\* Mutant of range: the window is resumed only when no page is pending.
range_OnlyWithoutOffset(state, now) ==
    IF lastDateTimeTruthy(state) /\ IsNullish(state, "lastOffset")
    THEN <<state["lastDateTime"], toISOString(now)>>
    ELSE ALL

range(state, now) ==
    IF lastDateTimeTruthy(state)
    THEN <<state["lastDateTime"], toISOString(now)>>
    ELSE ALL

\* Mutant of offset: `!lastOffset` in place of `lastOffset == null`.
offset_ZeroIsAbsent(state) ==
    IF IsNullish(state, "lastOffset") \/ state["lastOffset"] = 0
    THEN 0 ELSE state["lastOffset"] + PAGE_SIZE

\* Mutant of offset: the stored offset is requested again.
offset_NoAdvance(state) ==
    IF IsNullish(state, "lastOffset") THEN 0 ELSE state["lastOffset"]

offset(state) ==
    IF IsNullish(state, "lastOffset") THEN 0 ELSE state["lastOffset"] + PAGE_SIZE

plausibleQuery(state, now) ==
    [date_range |-> range(state, now),
     limit |-> PAGE_SIZE,
     offset |-> offset(state),
     total_rows |-> TRUE]

probeQuery ==
    [date_range |-> DAY, limit |-> PROBE_LIMIT, offset |-> 0, total_rows |-> FALSE]

\* ------------------------------------------------------------ page handling
\* A row whose `dimensions` is missing makes the destructuring throw.
RowThrows(row) == ~Has(row, "dimensions") \/ ~Has(row, "metrics")

TransformRow(row) ==
    [timestamp |-> MomentTzToISOString(row["dimensions"][1]),
     visitors |-> row["metrics"][1],
     pageviews |-> row["metrics"][3],
     bounce_rate |-> row["metrics"][4],
     visit_duration |-> row["metrics"][5],
     visits |-> row["metrics"][2]]

TransformRows(results) == [i \in 1..Len(results) |-> TransformRow(results[i])]

\* Mutant of hasMore: one row too many is needed for another page.
hasMore_OffByOne(totalRows, off) == totalRows # NULL /\ totalRows > off + PAGE_SIZE + 1

\* Mutant of hasMore: `>=` in place of `>`.
hasMore_Inclusive(totalRows, off) == totalRows # NULL /\ totalRows >= off + PAGE_SIZE

hasMore(totalRows, off) == totalRows # NULL /\ totalRows > off + PAGE_SIZE

\* rows.slice().sort((a, b) => a.timestamp.localeCompare(b.timestamp)):
\* the stable sort, element i going to the position given by its rank.
sortedByDate(rows) ==
    LET n == Len(rows)
        before(j, i) ==
            LET c == localeCompare(rows[j].timestamp, rows[i].timestamp)
            IN  c < 0 \/ (c = 0 /\ j < i)
        rank == [i \in 1..n |-> 1 + Cardinality({j \in 1..n : before(j, i)})]
    IN  [k \in 1..n |-> rows[CHOOSE i \in 1..n : rank[i] = k]]

maxDateTime(rows) == sortedByDate(rows)[Len(rows)].timestamp

\* Mutant of newState: the offset of the next page is stored.
newState_NextOffset(state, more, rows, off) ==
    IF more THEN Put(state, "lastOffset", off + PAGE_SIZE)
    ELSE IF Len(rows) > 0
         THEN Delete(Put(state, "lastDateTime", maxDateTime(rows)), "lastOffset")
         ELSE state

\* Mutant of newState: the offset is cleared whenever no more rows remain.
newState_AlwaysClear(state, more, rows, off) ==
    IF more THEN Put(state, "lastOffset", off)
    ELSE IF Len(rows) > 0
         THEN Delete(Put(state, "lastDateTime", maxDateTime(rows)), "lastOffset")
         ELSE Delete(state, "lastOffset")

\* Mutant of newState: the state is rebuilt from the two fields the handler
\* knows instead of being copied.
newState_Rebuilt(state, more, rows, off) ==
    LET known == [f \in (DOMAIN state) \cap {"lastDateTime", "lastOffset"} |-> state[f]]
    IN  IF more THEN Put(known, "lastOffset", off)
        ELSE IF Len(rows) > 0
             THEN Delete(Put(known, "lastDateTime", maxDateTime(rows)), "lastOffset")
             ELSE known

newState(state, more, rows, off) ==
    IF more THEN Put(state, "lastOffset", off)
    ELSE IF Len(rows) > 0
         THEN Delete(Put(state, "lastDateTime", maxDateTime(rows)), "lastOffset")
         ELSE state

\* ------------------------------------------------------------------ replies
\* res.status(400).json({errorMessage, errorType: "ConfigurationError"})
configurationErrorReply ==
    [status |-> 400, errorType |-> "ConfigurationError"]

\* Mutant of plausibleAPIErrorReply: the error reply carries a reset state.
plausibleAPIErrorReply_WithState(response) ==
    [status |-> 500, errorType |-> "PlausibleAPIError",
     upstreamStatus |-> response["status"], state |-> EmptyObject]

\* res.status(500).json({errorMessage, errorType: "PlausibleAPIError", stackTrace: [text]})
plausibleAPIErrorReply(response) ==
    [status |-> 500, errorType |-> "PlausibleAPIError", upstreamStatus |-> response["status"]]

\* Mutant of caughtErrorReply: the name of the error is ignored.
caughtErrorReply_AlwaysRuntime(errName) ==
    [status |-> 500, errorType |-> "RuntimeError"]

\* res.status(500).json({errorMessage, errorType: err.name || "RuntimeError", stackTrace})
caughtErrorReply(errName) ==
    [status |-> 500, errorType |-> IF errName # "" THEN errName ELSE "RuntimeError"]

\* Mutant of probeReply: the probe resets the pagination cursor.
probeReply_DropsOffset(state) ==
    [status |-> 200, state |-> Delete(state, "lastOffset"),
     insert |-> EmptyObject, hasMore |-> FALSE]

\* res.json({state: state || {}, insert: {}, hasMore: false})
probeReply(state) ==
    [status |-> 200, state |-> state, insert |-> EmptyObject, hasMore |-> FALSE]

\* const output = {state: newState, insert: {plausible_timeseries: rows}, schema, hasMore}
output(state, rows, more, off) ==
    [status |-> 200,
     state |-> newState(state, more, rows, off),
     insert |-> [plausible_timeseries |-> rows],
     schema |-> [plausible_timeseries |-> [primary_key |-> <<"timestamp">>]],
     hasMore |-> more]

\* ------------------------------------------------------------ the handler
\* const {state, secrets, setup_test} = req.body || {};  reads of `state?.x`
\* and `{...state}` see an absent state as the empty object.
stateOf(body) == IF Has(body, "state") THEN body["state"] ELSE EmptyObject

\* Mutant of secretsMissing: `&&` in place of `||`.
secretsMissing_Both(body) ==
    LET secrets == IF Has(body, "secrets") THEN body["secrets"] ELSE EmptyObject
        falsy(k) == ~Has(secrets, k) \/ secrets[k] = ""
    IN  falsy("plausibleApiKey") /\ falsy("siteId")

\* !plausibleApiKey || !siteId
secretsMissing(body) ==
    LET secrets == IF Has(body, "secrets") THEN body["secrets"] ELSE EmptyObject
        falsy(k) == ~Has(secrets, k) \/ secrets[k] = ""
    IN  falsy("plausibleApiKey") \/ falsy("siteId")

\* plausibleData.results || []
resultsOf(json) == IF Has(json, "results") THEN json["results"] ELSE <<>>

\* plausibleData.meta?.total_rows
totalRowsOf(json) ==
    IF Has(json, "meta") /\ Has(json["meta"], "total_rows")
    THEN json["meta"]["total_rows"] ELSE NULL

\* Lines 143-250: what the handler replies to an upstream response of the sync query.
syncReply(body, query, response) ==
    IF ~response["ok"] THEN plausibleAPIErrorReply(response)
    ELSE IF ~Has(response, "json") THEN caughtErrorReply("SyntaxError")
    ELSE LET results == resultsOf(response["json"])
             totalRows == totalRowsOf(response["json"])
         IN  IF \E i \in 1..Len(results) : RowThrows(results[i])
             THEN caughtErrorReply("TypeError")
             ELSE output(stateOf(body), TransformRows(results),
                         hasMore(totalRows, query["offset"]), query["offset"])

\* Lines 65-79: what the handler replies to an upstream response of the probe.
setupTestReply(body, response) ==
    IF ~response["ok"] THEN plausibleAPIErrorReply(response)
    ELSE probeReply(stateOf(body))

\* ------------------------------------------------------------- environment
FieldValues == {"", "key"}
SecretNames == {"plausibleApiKey", "siteId"}
SecretsObjects == UNION {[names -> FieldValues] : names \in SUBSET SecretNames}

\* Request envelopes Fivetran sends, before the state is attached.
Envelopes ==
    {Put(EmptyObject, "setup_test", t) : t \in BOOLEAN}
    \cup {Put(Put(EmptyObject, "setup_test", t), "secrets", s) :
            t \in BOOLEAN, s \in SecretsObjects}

\* States Fivetran may hold before the first invocation.
StartSaved ==
    {EmptyObject,
     Put(EmptyObject, "state", EmptyObject),
     Put(EmptyObject, "state", [custom |-> 7]),
     Put(EmptyObject, "state", [lastDateTime |-> NULL, lastOffset |-> NULL])}

\* "YYYY-MM-DD HH:mm" values upstream reports: an ordinary hour, the skipped
\* hour of SpringDay and the hour after it, the hour after the repeated one.
Dims == {123, 100 * SpringDay + 2, 100 * SpringDay + 3, 100 * FallDay + 3}

upstreamRow(dim) == [dimensions |-> <<dim>>, metrics |-> <<11, 12, 13, 14, 15>>]
malformedRow == [metrics |-> <<11, 12, 13, 14, 15>>]

RowValues == {upstreamRow(d) : d \in Dims} \cup {malformedRow}
Pages == UNION {[1..n -> RowValues] : n \in 0..MaxRows}

TotalRowsValues == {k * PAGE_SIZE + d : k \in 0..MaxPages, d \in {0, 1, PAGE_SIZE \div 2, PAGE_SIZE - 1}}

MetaValues == {EmptyObject} \cup {[total_rows |-> t] : t \in TotalRowsValues}

JsonValues ==
    {Put(EmptyObject, "results", p) : p \in Pages}
    \cup {Put(Put(EmptyObject, "results", p), "meta", m) : p \in Pages, m \in MetaValues}
    \cup {Put(EmptyObject, "meta", m) : m \in MetaValues}

ErrorStatuses == {401, 500}

ProbeResponses ==
    {[ok |-> TRUE, status |-> 200]} \cup {[ok |-> FALSE, status |-> c] : c \in ErrorStatuses}

FetchResponses ==
    ProbeResponses \cup {[ok |-> TRUE, status |-> 200, json |-> j] : j \in JsonValues}

\* ------------------------------------------------------------------- state
VARIABLES
    saved,      \* what Fivetran holds: {} before any state, else {state: ...}
    pc,         \* "idle", "awaitProbe", "awaitFetch" or "replied"
    body,       \* req.body of the invocation in progress
    calledAt,   \* wall clock when the invocation started
    query,      \* the request this invocation sent to Plausible
    sent,       \* number of requests this invocation sent to Plausible
    response,   \* what Plausible answered
    reply,      \* what the invocation replied to Fivetran
    clock,      \* wall clock, UTC hour index
    upstream,   \* SpecDrain: the dataset Plausible serves, {n, order}
    requested,  \* SpecDrain: the offsets requested so far, in order
    delivered,  \* SpecDrain: the rows of all replies so far
    replies,    \* number of replies this invocation sent to Fivetran
    frames      \* SpecPair: the handler's local variables, one frame per scope

drainVars == <<upstream, requested, delivered>>

vars == <<saved, pc, body, calledAt, query, sent, response, reply, clock, drainVars,
          replies, frames>>

Init ==
    /\ saved \in StartSaved
    /\ pc = "idle"
    /\ body = EmptyObject
    /\ calledAt = StartClock
    /\ query = EmptyObject
    /\ sent = 0
    /\ response = EmptyObject
    /\ reply = EmptyObject
    /\ clock = StartClock
    /\ upstream = EmptyObject
    /\ requested = <<>>
    /\ delivered = {}
    /\ replies = 0
    /\ frames = EmptyObject

\* Fivetran calls the function with its stored state; the handler runs up to
\* its first await (lines 29-141) or replies at once (lines 39-44).
Invoke(envelope) ==
    /\ pc = "idle"
    /\ LET b == IF Has(saved, "state") THEN Put(envelope, "state", saved["state"])
                ELSE envelope
       IN  /\ body' = b
           /\ calledAt' = clock
           /\ response' = EmptyObject
           /\ IF secretsMissing(b)
              THEN /\ reply' = configurationErrorReply
                   /\ replies' = 1
                   /\ query' = EmptyObject
                   /\ sent' = 0
                   /\ pc' = "replied"
              ELSE IF b["setup_test"]
              THEN /\ reply' = EmptyObject
                   /\ replies' = 0
                   /\ query' = probeQuery
                   /\ sent' = 1
                   /\ pc' = "awaitProbe"
              ELSE /\ reply' = EmptyObject
                   /\ replies' = 0
                   /\ query' = plausibleQuery(stateOf(b), clock)
                   /\ sent' = 1
                   /\ pc' = "awaitFetch"
    /\ UNCHANGED <<saved, clock, drainVars, frames>>

\* fetch() rejects (network fault): the catch blocks reply with err.name.
FetchRejects ==
    /\ pc \in {"awaitProbe", "awaitFetch"}
    /\ reply' = caughtErrorReply("TypeError")
    /\ replies' = replies + 1
    /\ pc' = "replied"
    /\ UNCHANGED <<saved, body, calledAt, query, sent, response, clock, drainVars, frames>>

\* The probe's fetch resolves (lines 65-79).
ProbeResponds(r) ==
    /\ pc = "awaitProbe"
    /\ response' = r
    /\ reply' = setupTestReply(body, r)
    /\ replies' = replies + 1
    /\ pc' = "replied"
    /\ UNCHANGED <<saved, body, calledAt, query, sent, clock, drainVars, frames>>

\* Mutant of FetchResponds: a non-success status is retried once.
FetchResponds_Retry(r) ==
    /\ pc = "awaitFetch"
    /\ response' = r
    /\ IF ~r["ok"] /\ sent < 2
       THEN /\ sent' = sent + 1
            /\ UNCHANGED <<reply, replies, pc>>
       ELSE /\ reply' = syncReply(body, query, r)
            /\ replies' = replies + 1
            /\ pc' = "replied"
            /\ UNCHANGED sent
    /\ UNCHANGED <<saved, body, calledAt, query, clock, drainVars, frames>>

\* The sync query's fetch resolves (lines 143-250).
FetchResponds(r) ==
    /\ pc = "awaitFetch"
    /\ response' = r
    /\ reply' = syncReply(body, query, r)
    /\ replies' = replies + 1
    /\ pc' = "replied"
    /\ UNCHANGED <<saved, body, calledAt, query, sent, clock, drainVars, frames>>

\* Fivetran takes the reply: a success reply of a sync replaces its stored
\* state, anything else leaves it alone.
Deliver ==
    /\ pc = "replied"
    /\ saved' = IF reply["status"] = 200 /\ ~body["setup_test"]
                THEN Put(EmptyObject, "state", reply["state"])
                ELSE saved
    /\ pc' = "idle"
    /\ body' = EmptyObject
    /\ query' = EmptyObject
    /\ sent' = 0
    /\ response' = EmptyObject
    /\ reply' = EmptyObject
    /\ replies' = 0
    /\ UNCHANGED <<calledAt, clock, drainVars, frames>>

Tick ==
    /\ clock < StartClock + MaxTicks
    /\ clock' = clock + 1
    /\ UNCHANGED <<saved, pc, body, calledAt, query, sent, response, reply, drainVars,
                   replies, frames>>

Next ==
    \/ \E envelope \in Envelopes : Invoke(envelope)
    \/ FetchRejects
    \/ \E r \in ProbeResponses : ProbeResponds(r)
    \/ \E r \in FetchResponses : FetchResponds(r)
    \/ Deliver
    \/ Tick

Spec == Init /\ [][Next]_vars

\* Shape of the state.
TypeOK ==
    /\ pc \in {"idle", "awaitProbe", "awaitFetch", "replied", "done"}
    /\ sent \in 0..1
    /\ replies \in 0..1
    /\ clock \in StartClock..(StartClock + MaxTicks)
    /\ calledAt <= clock

\* ------------------------------------------- draining a faithful upstream
\* The dataset Plausible holds: n hourly buckets, served oldest or newest first.
Datasets == {[n |-> t, order |-> o] : t \in TotalRowsValues, o \in {"asc", "desc"}}

\* The k-th hour bucket of the site: local hours from day 1 on, the hour
\* skipped on SpringDay having no bucket.
BucketDim(k) ==
    LET l == 24 + k - 1
        local == IF l >= 24 * SpringDay + 2 THEN l + 1 ELSE l
    IN  (local \div 24) * 100 + (local % 24)

\* Row i of the dataset in the order upstream serves it.
DatasetRow(ds, i) ==
    LET k == IF ds["order"] = "asc" THEN i ELSE ds["n"] + 1 - i
    IN  [dimensions |-> <<BucketDim(k)>>, metrics |-> <<k, 12, 13, 14, 15>>]

\* Plausible answering a query over the whole history from the dataset:
\* the rows offset+1 .. offset+limit and the total row count.
UpstreamAnswer(ds, q) ==
    LET left == IF ds["n"] > q["offset"] THEN ds["n"] - q["offset"] ELSE 0
        len == IF left < q["limit"] THEN left ELSE q["limit"]
    IN  [ok |-> TRUE, status |-> 200,
         json |-> [results |-> [i \in 1..len |-> DatasetRow(ds, q["offset"] + i)],
                   meta |-> [total_rows |-> ds["n"]]]]

\* The envelope of a sync with both secrets configured.
SyncEnvelope ==
    Put(Put(EmptyObject, "setup_test", FALSE), "secrets",
        [plausibleApiKey |-> "key", siteId |-> "key"])

InitDrain ==
    /\ saved \in {EmptyObject, Put(EmptyObject, "state", EmptyObject)}
    /\ pc = "idle"
    /\ body = EmptyObject
    /\ calledAt = StartClock
    /\ query = EmptyObject
    /\ sent = 0
    /\ response = EmptyObject
    /\ reply = EmptyObject
    /\ clock = StartClock
    /\ upstream \in Datasets
    /\ requested = <<>>
    /\ delivered = {}
    /\ replies = 0
    /\ frames = EmptyObject

\* Fivetran invokes a sync with the state it holds (lines 29-141).
DrainInvoke ==
    /\ pc = "idle"
    /\ ~secretsMissing(SyncEnvelope)
    /\ LET b == IF Has(saved, "state") THEN Put(SyncEnvelope, "state", saved["state"])
                ELSE SyncEnvelope
           q == plausibleQuery(stateOf(b), clock)
       IN  /\ body' = b
           /\ query' = q
           /\ requested' = Append(requested, q["offset"])
    /\ calledAt' = clock
    /\ sent' = 1
    /\ response' = EmptyObject
    /\ reply' = EmptyObject
    /\ replies' = 0
    /\ pc' = "awaitFetch"
    /\ UNCHANGED <<saved, clock, upstream, delivered, frames>>

\* Plausible answers from the dataset and the handler replies (lines 143-250).
DrainResponds ==
    /\ pc = "awaitFetch"
    /\ query["date_range"] = ALL
    /\ response' = UpstreamAnswer(upstream, query)
    /\ reply' = syncReply(body, query, response')
    /\ delivered' = IF reply'["status"] = 200
                    THEN delivered \cup
                         {reply'["insert"]["plausible_timeseries"][i] :
                            i \in 1..Len(reply'["insert"]["plausible_timeseries"])}
                    ELSE delivered
    /\ replies' = replies + 1
    /\ pc' = "replied"
    /\ UNCHANGED <<saved, body, calledAt, query, sent, clock, upstream, requested, frames>>

\* Fivetran stores the returned state and calls again while hasMore is true.
DrainDeliver ==
    /\ pc = "replied"
    /\ saved' = IF reply["status"] = 200
                THEN Put(EmptyObject, "state", reply["state"])
                ELSE saved
    /\ pc' = IF reply["status"] = 200 /\ ~reply["hasMore"] THEN "done" ELSE "idle"
    /\ UNCHANGED <<body, calledAt, query, sent, response, reply, clock, drainVars,
                   replies, frames>>

NextDrain ==
    \/ DrainInvoke
    \/ DrainResponds
    \/ DrainDeliver
    \/ Tick

SpecDrain == InitDrain /\ [][NextDrain]_vars

\* --------------------------------------------- incremental syncs of a site
\* The hour buckets a site may hold: those starting in the hours before and
\* during the run, by their index on the site's local time line.
RecentBuckets ==
    {k \in 1..(24 * (FallDay + 2)) :
        /\ MomentTzToISOString(BucketDim(k)) >= toISOString(StartClock - MaxRows - 1)
        /\ MomentTzToISOString(BucketDim(k)) < toISOString(StartClock + MaxTicks)}

\* A site: the hour buckets in which it had visits.
Sites == {[buckets |-> s] : s \in SUBSET RecentBuckets}

\* The elements of a set of bucket indexes, oldest first.
Ascending(s) ==
    [i \in 1..Cardinality(s) |-> CHOOSE k \in s : Cardinality({j \in s : j < k}) = i - 1]

\* The buckets of the site a query covers at wall clock `now`: "all" is every
\* bucket that has started, [start, end] the buckets with start <= t < end.
Covered(site, q, now) ==
    {k \in site["buckets"] :
        LET t == MomentTzToISOString(BucketDim(k))
        IN  IF q["date_range"] = ALL
            THEN t < toISOString(now)
            ELSE t >= q["date_range"][1] /\ t < q["date_range"][2]}

\* Plausible answering a query from the site's buckets: the rows
\* offset+1 .. offset+limit of the covered buckets and their count.
WindowAnswer(site, q, now) ==
    LET all == Ascending(Covered(site, q, now))
        left == IF Len(all) > q["offset"] THEN Len(all) - q["offset"] ELSE 0
        len == IF left < q["limit"] THEN left ELSE q["limit"]
    IN  [ok |-> TRUE, status |-> 200,
         json |-> [results |-> [i \in 1..len |-> upstreamRow(BucketDim(all[q["offset"] + i]))],
                   meta |-> [total_rows |-> Len(all)]]]

InitIncr ==
    /\ saved \in {EmptyObject, Put(EmptyObject, "state", EmptyObject)}
    /\ pc = "idle"
    /\ body = EmptyObject
    /\ calledAt = StartClock
    /\ query = EmptyObject
    /\ sent = 0
    /\ response = EmptyObject
    /\ reply = EmptyObject
    /\ clock = StartClock
    /\ upstream \in Sites
    /\ requested = <<>>
    /\ delivered = {}
    /\ replies = 0
    /\ frames = EmptyObject

\* Fivetran invokes a sync with the state it holds (lines 29-141).
IncrInvoke ==
    /\ pc = "idle"
    /\ ~secretsMissing(SyncEnvelope)
    /\ LET b == IF Has(saved, "state") THEN Put(SyncEnvelope, "state", saved["state"])
                ELSE SyncEnvelope
       IN  /\ body' = b
           /\ query' = plausibleQuery(stateOf(b), clock)
    /\ calledAt' = clock
    /\ sent' = 1
    /\ response' = EmptyObject
    /\ reply' = EmptyObject
    /\ replies' = 0
    /\ pc' = "awaitFetch"
    /\ UNCHANGED <<saved, clock, drainVars, frames>>

\* Plausible answers from the site and the handler replies (lines 143-250).
IncrResponds ==
    /\ pc = "awaitFetch"
    /\ response' = WindowAnswer(upstream, query, clock)
    /\ reply' = syncReply(body, query, response')
    /\ replies' = replies + 1
    /\ pc' = "replied"
    /\ UNCHANGED <<saved, body, calledAt, query, sent, clock, drainVars, frames>>

\* Fivetran writes the rows of the reply and stores the returned state.
IncrDeliver ==
    /\ pc = "replied"
    /\ saved' = IF reply["status"] = 200
                THEN Put(EmptyObject, "state", reply["state"])
                ELSE saved
    /\ delivered' = IF reply["status"] = 200
                    THEN delivered \cup
                         {reply["insert"]["plausible_timeseries"][i] :
                            i \in 1..Len(reply["insert"]["plausible_timeseries"])}
                    ELSE delivered
    /\ pc' = "idle"
    /\ UNCHANGED <<body, calledAt, query, sent, response, reply, clock, upstream,
                   requested, replies, frames>>

NextIncr ==
    \/ IncrInvoke
    \/ IncrResponds
    \/ IncrDeliver
    \/ Tick

SpecIncr == InitIncr /\ [][NextIncr]_vars

\* ------------------------------------------------ the chain of continuations
\* Checkpoints a chain of calls may start from: no state, or a state with
\* lastOffset absent, null or a page boundary, with or without lastDateTime.
ChainStates ==
    LET offsets == {EmptyObject, [lastOffset |-> NULL]}
                   \cup {[lastOffset |-> k * PAGE_SIZE] : k \in 0..MaxPages}
    IN  offsets \cup {Put(o, "lastDateTime", toISOString(StartClock - 1)) : o \in offsets}

\* Pages upstream may answer a continuation with: empty or well-formed rows.
ChainPages == {<<>>, <<upstreamRow(123)>>, <<upstreamRow(100 * FallDay + 3), upstreamRow(123)>>}

\* Upstream answers every request with a page and a total of at most
\* MaxPages * PAGE_SIZE + PAGE_SIZE - 1 rows, or with no total at all.
ChainResponses ==
    {[ok |-> TRUE, status |-> 200, json |-> Put(Put(EmptyObject, "results", p), "meta", m)] :
        p \in ChainPages, m \in MetaValues}

InitChain ==
    /\ saved \in {EmptyObject} \cup {Put(EmptyObject, "state", s) : s \in ChainStates}
    /\ pc = "idle"
    /\ body = EmptyObject
    /\ calledAt = StartClock
    /\ query = EmptyObject
    /\ sent = 0
    /\ response = EmptyObject
    /\ reply = EmptyObject
    /\ clock = StartClock
    /\ upstream = EmptyObject
    /\ requested = <<>>
    /\ delivered = {}
    /\ replies = 0
    /\ frames = EmptyObject

\* Fivetran invokes a sync with the state it holds (lines 29-141); the chain
\* is followed for MaxPages + 2 calls.
ChainInvoke ==
    /\ pc = "idle"
    /\ Len(requested) < MaxPages + 2
    /\ ~secretsMissing(SyncEnvelope)
    /\ LET b == IF Has(saved, "state") THEN Put(SyncEnvelope, "state", saved["state"])
                ELSE SyncEnvelope
           q == plausibleQuery(stateOf(b), clock)
       IN  /\ body' = b
           /\ query' = q
           /\ requested' = Append(requested, q["offset"])
    /\ calledAt' = clock
    /\ sent' = 1
    /\ response' = EmptyObject
    /\ reply' = EmptyObject
    /\ replies' = 0
    /\ pc' = "awaitFetch"
    /\ UNCHANGED <<saved, clock, upstream, delivered, frames>>

\* Plausible answers and the handler replies (lines 143-250).
ChainResponds(r) ==
    /\ pc = "awaitFetch"
    /\ response' = r
    /\ reply' = syncReply(body, query, r)
    /\ replies' = replies + 1
    /\ pc' = "replied"
    /\ UNCHANGED <<saved, body, calledAt, query, sent, clock, drainVars, frames>>

\* Fivetran stores the returned state and calls again while hasMore is true.
ChainDeliver ==
    /\ pc = "replied"
    /\ saved' = IF reply["status"] = 200
                THEN Put(EmptyObject, "state", reply["state"])
                ELSE saved
    /\ pc' = IF reply["status"] = 200 /\ ~reply["hasMore"] THEN "done" ELSE "idle"
    /\ UNCHANGED <<body, calledAt, query, sent, response, reply, clock, drainVars,
                   replies, frames>>

NextChain ==
    \/ ChainInvoke
    \/ \E r \in ChainResponses : ChainResponds(r)
    \/ ChainDeliver
    \/ Tick

\* The caller keeps re-invoking, upstream keeps answering and the handler
\* resumes after its await: each of the three steps happens if it stays enabled.
SpecChain ==
    /\ InitChain
    /\ [][NextChain]_vars
    /\ WF_vars(ChainInvoke)
    /\ WF_vars(\E r \in ChainResponses : ChainResponds(r))
    /\ WF_vars(ChainDeliver)

\* ----------------------------------------- two invocations in one process
\* The invocations the process serves at the same time.
Calls == {1, 2}

\* Mutant of Scope: the handler's variables are declared at module level,
\* one set for the whole process.
Scope_Module(call) == 1

\* The scope holding the handler's variables (REPORTING_TIMEZONE, PAGE_SIZE,
\* body, state, offset, range, plausibleQuery, response, ...): they are
\* declared inside the arrow function, so every call has its own.
Scope(call) == call

\* States the two calls may carry.
PairStates ==
    {EmptyObject,
     [lastOffset |-> 0],
     [lastDateTime |-> toISOString(StartClock - 1)],
     [lastDateTime |-> toISOString(StartClock - 1), lastOffset |-> PAGE_SIZE]}

\* Answers of upstream to either call.
PairResponses ==
    {[ok |-> FALSE, status |-> 500],
     [ok |-> TRUE, status |-> 200,
      json |-> [results |-> <<upstreamRow(123)>>, meta |-> [total_rows |-> 1]]],
     [ok |-> TRUE, status |-> 200,
      json |-> [results |-> <<upstreamRow(100 * FallDay + 3)>>,
                meta |-> [total_rows |-> 2 * PAGE_SIZE + 1]]],
     [ok |-> TRUE, status |-> 200, json |-> [results |-> <<>>]]}

\* A call before it is made: req and res of the call (pc, body, calledAt,
\* received, reply, interleaved) and the variables of its scope.
IdleFrame ==
    [pc |-> "idle", body |-> EmptyObject, calledAt |-> StartClock,
     received |-> EmptyObject, reply |-> EmptyObject, interleaved |-> FALSE,
     state |-> EmptyObject, query |-> EmptyObject, response |-> EmptyObject]

Awaiting(call) == frames[call].pc \in {"awaitFetch", "awaitBody"}

InitPair ==
    /\ saved = EmptyObject
    /\ pc = "idle"
    /\ body = EmptyObject
    /\ calledAt = StartClock
    /\ query = EmptyObject
    /\ sent = 0
    /\ response = EmptyObject
    /\ reply = EmptyObject
    /\ clock = StartClock
    /\ upstream = EmptyObject
    /\ requested = <<>>
    /\ delivered = {}
    /\ replies = 0
    /\ frames = [call \in Calls |-> IdleFrame]

\* Lines 29-141: a call arrives with state s, plans its query and starts the
\* fetch; the calls waiting at an await have now been interleaved with it.
PairInvoke(call, s) ==
    /\ frames[call].pc = "idle"
    /\ ~secretsMissing(SyncEnvelope)
    /\ LET b == Put(SyncEnvelope, "state", s)
           mine == [c \in Calls |->
                      IF c = call
                      THEN [frames[c] EXCEPT !.pc = "awaitFetch", !.body = b,
                                             !.calledAt = clock]
                      ELSE [frames[c] EXCEPT !.interleaved = @ \/ Awaiting(c)]]
       IN  frames' = [mine EXCEPT ![Scope(call)].state = stateOf(b),
                                  ![Scope(call)].query = plausibleQuery(stateOf(b), clock)]
    /\ UNCHANGED <<saved, pc, body, calledAt, query, sent, response, reply, clock,
                   drainVars, replies>>

\* Line 134: the fetch of a call resolves with r; the handler goes on to
\* read the body (line 145 or 166).
PairFetched(call, r) ==
    /\ frames[call].pc = "awaitFetch"
    /\ LET mine == [frames EXCEPT ![call].pc = "awaitBody", ![call].received = r]
       IN  frames' = [mine EXCEPT ![Scope(call)].response = r]
    /\ UNCHANGED <<saved, pc, body, calledAt, query, sent, response, reply, clock,
                   drainVars, replies>>

\* Lines 143-250: the body is read and the call replies from the variables
\* of its scope.
PairReplies(call) ==
    /\ frames[call].pc = "awaitBody"
    /\ LET scope == frames[Scope(call)]
       IN  frames' = [frames EXCEPT
                        ![call].pc = "replied",
                        ![call].reply = syncReply(Put(frames[call].body, "state", scope.state),
                                                  scope.query, scope.response)]
    /\ UNCHANGED <<saved, pc, body, calledAt, query, sent, response, reply, clock,
                   drainVars, replies>>

NextPair ==
    \/ \E call \in Calls, s \in PairStates : PairInvoke(call, s)
    \/ \E call \in Calls, r \in PairResponses : PairFetched(call, r)
    \/ \E call \in Calls : PairReplies(call)
    \/ Tick

SpecPair == InitPair /\ [][NextPair]_vars

\* ------------------------------------------------- vocabulary of the claims
\* An invocation that is not a connectivity probe and has sent its query.
SyncQuerySent == pc \in {"awaitFetch", "replied"} /\ ~body["setup_test"] /\ sent = 1

\* A non-probe invocation that replied with the success payload.
SyncSucceeded == pc = "replied" /\ ~body["setup_test"] /\ reply["status"] = 200

\* A probe whose secrets were present and whose upstream request succeeded.
ProbeSucceeded ==
    /\ pc = "replied" /\ body["setup_test"]
    /\ Has(response, "ok") /\ response["ok"]

incoming == stateOf(body)
reportedTotal == totalRowsOf(response["json"])
pageRows == reply["insert"]["plausible_timeseries"]

\* The field is present and carries a value (not JSON null).
Present(obj, k) == Has(obj, k) /\ obj[k] # NULL

\* Both objects agree on field k: absent in both, or present with one value.
SameField(a, b, k) == (Has(a, k) <=> Has(b, k)) /\ (Has(a, k) => a[k] = b[k])

\* The greatest timestamp among the rows of a non-empty page.
GreatestTimestamp(rows) ==
    LET ts == {rows[i].timestamp : i \in 1..Len(rows)}
    IN  CHOOSE t \in ts : \A u \in ts : u <= t

\* ---------------------------------------------------------------------- C1
\* C1: from an empty checkpoint against an unchanging dataset of n rows, the
\* chain of calls made while hasMore is true requests the offsets
\* 0, PAGE_SIZE, 2*PAGE_SIZE, ... in that order, and when hasMore first
\* becomes false the rows of all replies contain every upstream row.
C1_DrainComplete ==
    /\ \A i \in 1..Len(requested) : requested[i] = (i - 1) * PAGE_SIZE
    /\ (pc \in {"replied", "done"} /\ reply["status"] = 200 /\ ~reply["hasMore"]) =>
            \A i \in 1..upstream["n"] : TransformRow(DatasetRow(upstream, i)) \in delivered

\* A dataset of more than two pages, served newest first, is drained.
C1_Witness ==
    /\ pc = "done"
    /\ upstream["order"] = "desc"
    /\ upstream["n"] > 2 * PAGE_SIZE
    /\ requested = <<0, PAGE_SIZE, 2 * PAGE_SIZE>>
    /\ Cardinality(delivered) = upstream["n"]

\* ---------------------------------------------------------------------- C2
\* C2: every non-probe invocation sends offset 0 when the incoming state has
\* no lastOffset (absent or null), and lastOffset + PAGE_SIZE when it has
\* lastOffset = k, k = 0 included.
C2_OffsetPlanned ==
    SyncQuerySent =>
        /\ (~Present(incoming, "lastOffset") => query["offset"] = 0)
        /\ (Present(incoming, "lastOffset")
                => query["offset"] = incoming["lastOffset"] + PAGE_SIZE)

\* The continuation from lastOffset = 0 has asked for the second page.
C2_Witness ==
    /\ SyncQuerySent
    /\ Present(incoming, "lastOffset") /\ incoming["lastOffset"] = 0
    /\ query["offset"] = PAGE_SIZE

\* ---------------------------------------------------------------------- C3
\* C3: every non-probe invocation sends the window "all" when the incoming
\* state has no lastDateTime (absent or null), else the pair [lastDateTime, now] with
\* now the wall clock of this invocation, whatever lastOffset is.
C3_WindowPlanned ==
    SyncQuerySent =>
        IF Present(incoming, "lastDateTime")
        THEN query["date_range"] = <<incoming["lastDateTime"], toISOString(calledAt)>>
        ELSE query["date_range"] = ALL

\* A continuation inside an incremental window: both fields are present.
C3_Witness ==
    /\ SyncQuerySent
    /\ Present(incoming, "lastDateTime") /\ Present(incoming, "lastOffset")
    /\ Len(query["date_range"]) = 2
    /\ calledAt > StartClock

\* ---------------------------------------------------------------------- C4
\* C4: a successful non-probe invocation whose reported total exceeds
\* offset + PAGE_SIZE replies hasMore = true, returns lastOffset = the offset
\* it requested, and leaves lastDateTime as it came in.
C4_MoreRemaining ==
    (SyncSucceeded /\ reportedTotal # NULL /\ reportedTotal > query["offset"] + PAGE_SIZE) =>
        /\ reply["hasMore"]
        /\ Has(reply["state"], "lastOffset")
        /\ reply["state"]["lastOffset"] = query["offset"]
        /\ SameField(reply["state"], incoming, "lastDateTime")

\* More rows remain after the second page of an incremental window.
C4_Witness ==
    /\ SyncSucceeded /\ reply["hasMore"]
    /\ query["offset"] = PAGE_SIZE
    /\ Present(incoming, "lastDateTime")
    /\ Len(pageRows) > 0

\* ---------------------------------------------------------------------- C5
\* C5: a successful non-probe invocation whose reported total is at most
\* offset + PAGE_SIZE and whose page has a row replies hasMore = false,
\* returns no lastOffset field, and lastDateTime = the greatest timestamp of
\* the page.
C5_WindowComplete ==
    (/\ SyncSucceeded /\ reportedTotal # NULL
     /\ reportedTotal <= query["offset"] + PAGE_SIZE
     /\ Len(pageRows) > 0) =>
        /\ ~reply["hasMore"]
        /\ ~Has(reply["state"], "lastOffset")
        /\ Has(reply["state"], "lastDateTime")
        /\ reply["state"]["lastDateTime"] = GreatestTimestamp(pageRows)

\* The exact boundary on a continuation, the newest row not last in the page.
C5_Witness ==
    /\ SyncSucceeded
    /\ Present(incoming, "lastOffset")
    /\ reportedTotal = query["offset"] + PAGE_SIZE
    /\ Len(pageRows) = 2
    /\ pageRows[1].timestamp > pageRows[2].timestamp
    /\ reply["state"]["lastDateTime"] = pageRows[1].timestamp

\* ---------------------------------------------------------------------- C6
\* C6: in the state a successful non-probe invocation returns, lastOffset is
\* present exactly when the reply has hasMore = true.
C6_OffsetIffMore ==
    SyncSucceeded => (Present(reply["state"], "lastOffset") <=> reply["hasMore"])

ScenarioTotalRows == 2 * PAGE_SIZE + PAGE_SIZE \div 2

\* C8 as stated: incoming lastOffset = 1000 and a reported total of 2500
\* yield hasMore = true, lastOffset = 1000 and the timestamp unchanged.
C8_Original ==
    (/\ SyncSucceeded
     /\ Present(incoming, "lastOffset") /\ incoming["lastOffset"] = PAGE_SIZE
     /\ reportedTotal = ScenarioTotalRows) =>
        /\ reply["hasMore"]
        /\ Has(reply["state"], "lastOffset")
        /\ reply["state"]["lastOffset"] = PAGE_SIZE
        /\ SameField(reply["state"], incoming, "lastDateTime")

\* C8 amended: incoming lastOffset = 0 (so that offset 1000 is requested)
\* and a reported total of 2500 yield hasMore = true, lastOffset = 1000 and
\* the timestamp unchanged.
C8_ScenarioC ==
    (/\ SyncSucceeded
     /\ Present(incoming, "lastOffset") /\ incoming["lastOffset"] = 0
     /\ reportedTotal = ScenarioTotalRows) =>
        /\ query["offset"] = PAGE_SIZE
        /\ reply["hasMore"]
        /\ Has(reply["state"], "lastOffset")
        /\ reply["state"]["lastOffset"] = PAGE_SIZE
        /\ SameField(reply["state"], incoming, "lastDateTime")

C8_Witness ==
    /\ SyncSucceeded
    /\ DOMAIN incoming = {"lastOffset"} /\ incoming["lastOffset"] = 0
    /\ reportedTotal = ScenarioTotalRows
    /\ reply["state"] = [lastOffset |-> PAGE_SIZE]

\* ---------------------------------------------------------------------- C9
\* C9: a probe with both secrets and an upstream success replies
\* {state: the incoming state, insert: {}, hasMore: false}, and its upstream
\* request has limit 1 and offset 0 whatever the incoming state carries.
C9_ProbeEchoesState ==
    /\ pc = "awaitProbe" => (query["limit"] = 1 /\ query["offset"] = 0)
    /\ ProbeSucceeded =>
        /\ reply = [status |-> 200, state |-> incoming,
                    insert |-> EmptyObject, hasMore |-> FALSE]
        /\ query["limit"] = 1 /\ query["offset"] = 0
        /\ sent = 1

\* A probe made in the middle of a paginated incremental window.
C9_Witness ==
    /\ ProbeSucceeded
    /\ Present(incoming, "lastOffset") /\ Present(incoming, "lastDateTime")
    /\ reply["state"] = incoming

\* --------------------------------------------------------------------- C10
\* The secret is not in the request's secrets.
SecretAbsent(k) == ~Has(body, "secrets") \/ ~Has(body["secrets"], k)

\* C10: when the API key or the site identifier is missing, in probe mode
\* and in sync mode alike, the reply is a ConfigurationError and no request
\* went to upstream.
C10_MissingSecret ==
    (pc # "idle" /\ (SecretAbsent("plausibleApiKey") \/ SecretAbsent("siteId"))) =>
        /\ pc = "replied"
        /\ reply["errorType"] = "ConfigurationError"
        /\ sent = 0
        /\ query = EmptyObject

\* A probe that carries the API key but no site identifier.
C10_Witness ==
    /\ pc = "replied" /\ body["setup_test"]
    /\ ~SecretAbsent("plausibleApiKey") /\ body["secrets"]["plausibleApiKey"] # ""
    /\ SecretAbsent("siteId")
    /\ reply["errorType"] = "ConfigurationError"
    /\ sent = 0

\* --------------------------------------------------------------------- C11
\* An invocation that replied with an error.
Failed == pc = "replied" /\ reply["status"] # 200

\* The upstream answered with a non-success status.
UpstreamRefused == Has(response, "ok") /\ ~response["ok"]

\* The fetch was sent and rejected: no response ever arrived.
FetchRejected == sent = 1 /\ response = EmptyObject

\* C11 as stated: every error reply has errorType "ConfigurationError",
\* "UpstreamAPIError" or "RuntimeError"; a non-success upstream status yields
\* "UpstreamAPIError", any other failure "RuntimeError".
C11_Original ==
    Failed =>
        /\ reply["errorType"] \in {"ConfigurationError", "UpstreamAPIError", "RuntimeError"}
        /\ (UpstreamRefused => reply["errorType"] = "UpstreamAPIError")
        /\ ((sent = 1 /\ ~UpstreamRefused) => reply["errorType"] = "RuntimeError")

\* C11 amended: every error reply has errorType "ConfigurationError",
\* "PlausibleAPIError" or the name of the error that was caught; a
\* non-success upstream status yields "PlausibleAPIError", a rejected fetch
\* or a malformed row "TypeError", an unparsable body "SyntaxError".
C11_ErrorTypes ==
    Failed =>
        /\ reply["errorType"] \in
              {"ConfigurationError", "PlausibleAPIError", "TypeError", "SyntaxError"}
        /\ (sent = 0 <=> reply["errorType"] = "ConfigurationError")
        /\ (UpstreamRefused <=> reply["errorType"] = "PlausibleAPIError")
        /\ (FetchRejected => reply["errorType"] = "TypeError")
        /\ ((Has(response, "ok") /\ response["ok"] /\ ~Has(response, "json"))
                => reply["errorType"] = "SyntaxError")
        /\ (Has(response, "json") => reply["errorType"] = "TypeError")

\* A sync whose fetch was rejected by the network.
C11_Witness ==
    /\ Failed /\ FetchRejected /\ ~body["setup_test"]
    /\ reply["errorType"] = "TypeError"

\* --------------------------------------------------------------------- C12
\* C12: an invocation that fails replies without a state field and without
\* rows, Fivetran's checkpoint does not change on that reply, and the failed
\* attempt had planned from the checkpoint Fivetran still holds.
C12_FailureKeepsCheckpoint ==
    [][Failed =>
        /\ ~Has(reply, "state") /\ ~Has(reply, "insert") /\ ~Has(reply, "hasMore")
        /\ (Has(body, "state") <=> Has(saved, "state"))
        /\ (Has(saved, "state") => body["state"] = saved["state"])
        /\ saved' = saved]_vars

\* A continuation whose page could not be processed.
C12_Witness ==
    /\ Failed /\ Has(response, "json")
    /\ reply["errorType"] = "TypeError"
    /\ Present(incoming, "lastOffset")
    /\ saved["state"] = incoming

\* --------------------------------------------------------------------- C14
\* C13: an incremental sync (the incoming state has lastDateTime) delivers no
\* row whose timestamp an earlier completed sync already delivered, upstream
\* returning exactly the rows of the requested window [lastDateTime, now).
C13_OnlyNewData ==
    (SyncSucceeded /\ Present(incoming, "lastDateTime")) =>
        \A i \in 1..Len(pageRows) :
            pageRows[i].timestamp \notin {r.timestamp : r \in delivered}

\* C14: when an initial sync has drained its window over several pages, the
\* lastDateTime of the returned state is the newest timestamp of all the
\* pages, in whatever order upstream served the rows.
C14_NewestOverAllPages ==
    (/\ pc \in {"replied", "done"} /\ reply["status"] = 200 /\ ~reply["hasMore"]
     /\ Len(requested) >= 2) =>
        /\ Has(reply["state"], "lastDateTime")
        /\ \A r \in delivered : r.timestamp <= reply["state"]["lastDateTime"]

\* --------------------------------------------------------------------- C15
\* C15: when the response carries no total row count, the window is treated
\* as exhausted only if the page is empty, the state then being returned
\* unchanged; a non-empty page does not close the window.
C15_MissingTotalConservative ==
    (SyncSucceeded /\ reportedTotal = NULL) =>
        IF Len(pageRows) = 0
        THEN ~reply["hasMore"] /\ reply["state"] = incoming
        ELSE reply["hasMore"] \/ reply["state"] = incoming

\* --------------------------------------------------------------------- C16
\* C16: an invocation sends at most one request to upstream, none when a
\* secret is missing and no second one after a failure, and sends exactly
\* one reply on every path.
C16_OneFetchOneReply ==
    /\ sent <= 1 /\ replies <= 1
    /\ (pc # "idle" /\ (SecretAbsent("plausibleApiKey") \/ SecretAbsent("siteId")))
            => sent = 0
    /\ pc \in {"awaitProbe", "awaitFetch"} => (sent = 1 /\ replies = 0 /\ reply = EmptyObject)
    /\ pc = "replied" => (replies = 1 /\ Has(reply, "status"))
    /\ pc = "idle" => (sent = 0 /\ replies = 0)

\* A sync that upstream refused: one request, one reply, no retry.
C16_Witness ==
    /\ pc = "replied" /\ ~body["setup_test"] /\ UpstreamRefused
    /\ sent = 1 /\ replies = 1
    /\ reply["errorType"] = "PlausibleAPIError"

\* --------------------------------------------------------------------- C17
\* C17: when two invocations interleave at their await points, the reply of
\* each is the reply the handler gives to its own request and its own
\* upstream response alone.
C17_NoInterference ==
    \A call \in Calls :
        frames[call].pc = "replied" =>
            frames[call].reply =
                syncReply(frames[call].body,
                          plausibleQuery(stateOf(frames[call].body), frames[call].calledAt),
                          frames[call].received)

\* A call has stored a continuation offset after another call with another
\* state was started while it was waiting.
C17_Witness ==
    \E call \in Calls, other \in Calls :
        /\ call # other
        /\ frames[call].pc = "replied"
        /\ frames[call].interleaved
        /\ frames[other].pc # "idle"
        /\ stateOf(frames[other].body) # stateOf(frames[call].body)
        /\ frames[call].reply["status"] = 200
        /\ frames[call].reply["hasMore"]

\* --------------------------------------------------------------------- C18
savedState == IF Has(saved, "state") THEN saved["state"] ELSE EmptyObject

\* Every row of the reply is at or after the start of the requested window.
RowsAtOrAfterStart ==
    Len(query["date_range"]) = 2 =>
        \A i \in 1..Len(pageRows) : pageRows[i].timestamp >= query["date_range"][1]

\* C18: as long as upstream returns only rows at or after the requested
\* window start, each step leaves a present lastDateTime of Fivetran's state
\* present and does not decrease it.
C18_WatermarkMonotone ==
    [][(/\ Present(savedState, "lastDateTime")
        /\ (SyncSucceeded => RowsAtOrAfterStart)) =>
            /\ Present(savedState', "lastDateTime")
            /\ savedState'["lastDateTime"] >= savedState["lastDateTime"]]_vars

\* An incremental window closes on a newer row and the state is stored.
C18_Witness ==
    /\ SyncSucceeded /\ ~reply["hasMore"] /\ Len(pageRows) > 0
    /\ Present(incoming, "lastDateTime")
    /\ Len(query["date_range"]) = 2 /\ RowsAtOrAfterStart
    /\ reply["state"]["lastDateTime"] > incoming["lastDateTime"]

\* --------------------------------------------------------------------- C19
\* C19: from any starting checkpoint, with upstream totals bounded, the
\* caller that re-invokes while hasMore is true eventually receives
\* hasMore = false: every continuation requests the offset PAGE_SIZE after
\* the previous one and the chain ends, also when pages come back empty.
C19_ChainTerminates ==
    /\ [](\A i \in 2..Len(requested) : requested[i] = requested[i - 1] + PAGE_SIZE)
    /\ <>(pc = "done")

\* A chain of three calls has ended, its last page having come back empty.
C19_Witness ==
    /\ pc = "done"
    /\ Len(requested) >= 3
    /\ Len(resultsOf(response["json"])) = 0
    /\ ~reply["hasMore"]

\* --------------------------------------------------------------------- C20
\* C20: a successful non-probe invocation leaves the state it received as
\* Fivetran holds it, and the state it returns differs from it at most in
\* lastOffset and lastDateTime: every other field is kept, none is added.
C20_OtherFieldsKept ==
    SyncSucceeded =>
        /\ \A k \in (DOMAIN incoming \cup DOMAIN reply["state"]) \ {"lastOffset", "lastDateTime"} :
                SameField(reply["state"], incoming, k)
        /\ (Has(body, "state") <=> Has(saved, "state"))
        /\ incoming = savedState

\* A window closes and the custom field travels through.
C20_Witness ==
    /\ SyncSucceeded /\ ~reply["hasMore"] /\ Len(pageRows) > 0
    /\ Has(incoming, "custom") /\ ~Has(incoming, "lastDateTime")
    /\ Has(reply["state"], "lastDateTime")
    /\ reply["state"]["custom"] = incoming["custom"]

====
